---- MODULE Spec2Model ----
(***************************************************************************)
(* Token lifecycle, access resolution and the authentication middleware of *)
(* the smartcar starter server (src/server/middleware.js holds the         *)
(* middleware, the utils module and the db module).                        *)
(*                                                                         *)
(* Every await of the code is a scheduling point: the store executes a     *)
(* query, or the auth collaborator answers an exchange, in a step of its   *)
(* own, and the clock and the other requests may move in between.          *)
(* The exchange and the upsert may fail; the two SELECT queries are taken  *)
(* to answer.                                                              *)
(***************************************************************************)
EXTENDS Integers, Sequences, FiniteSets, TLC

VARIABLES store, now, authClient, procs, issued, nwrites, exchanged, fan, info

\* the token side: the table, the clock, the auth client, the requests, the
\* exchanges answered, the upserts done, the refresh tokens redeemed
\* the vehicle side: a getVehiclesWithAttributes call, a getVehicleInfo call
vars == <<store, now, authClient, procs, issued, nwrites, exchanged, fan, info>>
tokenVars == <<store, now, authClient, procs, issued, nwrites, exchanged>>

---------------------------------------------------------------------------
(* Bounds *)

MaxNow == 2
MaxExpiry == 3
MaxRefreshExpiry == 2
MaxCalls == 2
MaxFetches == 3
MaxProps == 3

\* two vehicles, so that "the first listed" is a choice; two requests, so
\* that two calls can overlap
VehicleIds == {1, 2}
Procs == {1, 2}

---------------------------------------------------------------------------
(* Program constants and values *)

\* const expirationBuffer = 5 * 60 * 1000; // 5 minutes
expirationBuffer == 5 * 60 * 1000

\* The clock moves in steps of one buffer, and the expiry timestamps are
\* multiples of it, so that an expiry can lie strictly inside, exactly on and
\* strictly outside the buffer window.
ClockStep == expirationBuffer

\* let authClient = null;
NULL == "null"
Client == "client"

\* a field that an object does not have, or holds no value yet
Absent == 0 - 1

\* getVehicleTokens returns null when no row has the vehicle id
NoRecord == [accessToken |-> Absent, refreshToken |-> Absent,
             expiration |-> Absent, refreshExpiration |-> Absent]

\* the rows the table can hold at the start: the tokens of the first
\* authorization, with any pair of expiry timestamps (neither the schema nor
\* saveVehicleTokens relates the two)
InitialRecord(v, e, r) ==
    [accessToken |-> 100 + v, refreshToken |-> 200 + v,
     expiration |-> e, refreshExpiration |-> r]

InitialRecords(v) ==
    {InitialRecord(v, e * ClockStep, r * ClockStep) :
        e \in 1..MaxExpiry, r \in 0..MaxRefreshExpiry}

\* what authClient.exchangeRefreshToken answers: a fresh token pair, the
\* access token living a short or a long time, the refresh token longer
AccessLifetimes == {ClockStep, 2 * ClockStep}
RefreshLifetime == 3 * ClockStep

NewAccess(n, t, life) ==
    [accessToken |-> 300 + n, refreshToken |-> 400 + n,
     expiration |-> t + life, refreshExpiration |-> t + RefreshLifetime]

\* error messages
\* (the NotFound message ends with the vehicle id, procs[p].vid)
ErrNotFound == "No tokens found for vehicle"
ErrRefreshExpired == "Refresh token expired, please reconnect vehicle"
ErrNotInitialized == "Auth client not initialized"
ErrNoAccess == "No valid access token found. Please connect your vehicle."
ErrExchange == "exchangeRefreshToken rejected"
ErrEmptyMessage == ""
ErrStore == "pool.query rejected"
AuthFailed == "Authentication failed"

ExchangeErrors == {ErrExchange, ErrEmptyMessage}

\* the outcome of an async call: not settled, fulfilled with an object that
\* has an accessToken (and, for a session payload, an expiration), or
\* rejected with an Error
NoOutcome == [status |-> "none", accessToken |-> Absent, expiration |-> Absent,
              message |-> ""]
Fulfilled(tok, exp) == [status |-> "ok", accessToken |-> tok, expiration |-> exp,
                        message |-> ""]
Rejected(msg) == [status |-> "error", accessToken |-> Absent, expiration |-> Absent,
                  message |-> msg]

\* the request's 'my-starter-app' cookie: none, one that jwt.verify rejects,
\* a verified payload without an expiration, or a verified payload
NoCookie == [kind |-> "none", accessToken |-> Absent, expiration |-> Absent]
Cookies ==
    {NoCookie,
     [kind |-> "invalid", accessToken |-> Absent, expiration |-> Absent],
     [kind |-> "noexp", accessToken |-> 500, expiration |-> Absent]}
    \cup {[kind |-> "ok", accessToken |-> 500, expiration |-> e * ClockStep] :
            e \in 1..MaxExpiry}

\* what the middleware has done with the request
NoResponse == [next |-> FALSE, status |-> 0, body |-> "", tokens |-> NoOutcome]

---------------------------------------------------------------------------
(* The db module *)

\* SELECT * FROM vehicle_tokens WHERE vehicle_id = $1; null without a row
getVehicleTokens(s, vehicleId) == s[vehicleId]

\* SELECT vehicle_id ... WHERE refresh_expiration > CURRENT_TIMESTAMP
getAllStoredVehiclesUnfiltered(s, t) == {v \in VehicleIds : s[v] # NoRecord}
getAllStoredVehicles(s, t) ==
    {v \in VehicleIds : s[v] # NoRecord /\ s[v].refreshExpiration > t}

\* the query has no ORDER BY: the rows come in any order
RowOrders(S) ==
    {q \in [1..Cardinality(S) -> S] : \A i, j \in DOMAIN q : i # j => q[i] # q[j]}

\* INSERT ... ON CONFLICT (vehicle_id) DO UPDATE SET the four token fields
saveVehicleTokensInsertOnly(s, vehicleId, tokens) ==
    IF s[vehicleId] = NoRecord THEN [s EXCEPT ![vehicleId] = tokens] ELSE s
saveVehicleTokens(s, vehicleId, tokens) ==
    [s EXCEPT ![vehicleId] =
        [accessToken |-> tokens.accessToken, refreshToken |-> tokens.refreshToken,
         expiration |-> tokens.expiration,
         refreshExpiration |-> tokens.refreshExpiration]]

---------------------------------------------------------------------------
(* The utils module: the decisions *)

\* if (!tokens)
noTokensNever(tokens) == FALSE
noTokens(tokens) == tokens = NoRecord

\* if (!authClient)
clientMissingNever(client) == FALSE
clientMissing(client) == client = NULL

\* tokens.expiration.getTime() - expirationBuffer < now.getTime()
isExpiredFlipped(tokens, t) == tokens.expiration - expirationBuffer > t
isExpired(tokens, t) == tokens.expiration - expirationBuffer < t

\* tokens.refreshExpiration.getTime() < now.getTime()
refreshExpiredNever(tokens, t) == FALSE
refreshExpired(tokens, t) == tokens.refreshExpiration < t

\* the cookie is present, jwt.verify accepts it, and
\* new Date(access.expiration).getTime() - expirationBuffer > now.getTime();
\* without an expiration the left side is NaN and the comparison is false
sessionValidFlipped(cookie, t) ==
    /\ cookie.kind \notin {"none", "invalid"}
    /\ cookie.expiration # Absent
    /\ cookie.expiration - expirationBuffer < t
sessionValid(cookie, t) ==
    /\ cookie.kind \notin {"none", "invalid"}
    /\ cookie.expiration # Absent
    /\ cookie.expiration - expirationBuffer > t

\* lines 109-123 of getAccess: the access object it returns from the cookie,
\* or nothing when it falls through to the store; the catch block swallows
\* what jwt.verify throws
ErrJwt == "jwt malformed"
getAccessFromCookieVerifyThrows(cookie, t) ==
    IF cookie.kind = "invalid" THEN Rejected(ErrJwt)
    ELSE IF sessionValid(cookie, t)
    THEN Fulfilled(cookie.accessToken, cookie.expiration)
    ELSE NoOutcome
getAccessFromCookie(cookie, t) ==
    IF sessionValid(cookie, t)
    THEN Fulfilled(cookie.accessToken, cookie.expiration)
    ELSE NoOutcome

\* storedVehicleIds[0]
lastVehicle(storedVehicleIds) == storedVehicleIds[Len(storedVehicleIds)]
firstVehicle(storedVehicleIds) == storedVehicleIds[1]

\* the body of the 401 response: err.message || 'Authentication failed'
errorBody(message) == IF message # "" THEN message ELSE AuthFailed

\* try { req.tokens = await getAccess(req); return next(); }
\* catch (err) { return res.status(401).json({ error: ... }); }
\* next() hands over to the router, which catches what later handlers throw:
\* it is taken not to throw back into this try block.
authenticateSettleAlwaysNext(out) ==
    IF out.status = "ok"
    THEN [next |-> TRUE, status |-> 0, body |-> "", tokens |-> out]
    ELSE [next |-> TRUE, status |-> 401, body |-> errorBody(out.message),
          tokens |-> NoOutcome]
authenticateSettle(out) ==
    IF out.status = "ok"
    THEN [next |-> TRUE, status |-> 0, body |-> "", tokens |-> out]
    ELSE [next |-> FALSE, status |-> 401, body |-> errorBody(out.message),
          tokens |-> NoOutcome]

\* getAccess settles: the middleware's continuation runs
getAccessSettle(pr, out) ==
    [pr EXCEPT !.ga = out, !.http = authenticateSettle(out), !.pc = "done"]

\* getAccessForVehicle settles: a direct caller has its outcome; getAccess
\* returns or rethrows it (return await getAccessForVehicle(...))
getAccessForVehicleSettle(pr, out) ==
    IF pr.kind = "auth"
    THEN getAccessSettle([pr EXCEPT !.gav = out], out)
    ELSE [pr EXCEPT !.gav = out, !.pc = "done"]

---------------------------------------------------------------------------
(* The utils module: the vehicle list *)

\* a parameter that the caller leaves out
Undefined == "undefined"

\* what vehicle.attributes() resolves to for a vehicle: {id, make, model,
\* year, meta}
AttributesOf(v) ==
    [id |-> v, make |-> IF v = 1 THEN "TESLA" ELSE "FORD",
     model |-> IF v = 1 THEN "Model 3" ELSE "Focus", year |-> 2020 + v,
     meta |-> "requestId"]

NoValue == [meta |-> "none"]

\* the members of Promise.allSettled's result, and a promise not settled yet
PendingFetch == [status |-> "pending", value |-> NoValue, reason |-> ""]
FulfilledFetch(value) == [status |-> "fulfilled", value |-> value, reason |-> ""]
RejectedFetch(reason) == [status |-> "rejected", value |-> NoValue, reason |-> reason]

\* lodash get(value, path): undefined when the path is missing
get(value, path) == IF path \in DOMAIN value THEN value[path] ELSE Undefined

\* let { meta, ...remainingValue } = settlement.value
withoutMeta(value) == [f \in DOMAIN value \ {"meta"} |-> value[f]]

\* the optional process callback: none, or one that wraps the value
applyProcess(process, value) == IF process = Undefined THEN value ELSE <<value>>

\* handleSettlement(settlement, path, errorMessage = 'Information
\* unavailable', process)
handleSettlement(settlement, path, errorMessage, process) ==
    IF settlement.status = "rejected"
    THEN [error |-> IF errorMessage = Undefined THEN "Information unavailable"
                    ELSE errorMessage]
    ELSE applyProcess(process,
            IF path # Undefined THEN get(settlement.value, path)
            ELSE withoutMeta(settlement.value))

\* await Promise.allSettled(vehiclePromises): every promise has settled
allSettledFailFast(settlements) ==
    \/ \A i \in DOMAIN settlements : settlements[i].status = "fulfilled"
    \/ \E i \in DOMAIN settlements : settlements[i].status = "rejected"
allSettled(settlements) ==
    \A i \in DOMAIN settlements : settlements[i].status # "pending"

---------------------------------------------------------------------------
(* The vehicleProperties table and getVehicleInfo's two loops *)

\* the make argument: a brand, or left out
Makes == {"TESLA", "FORD", Undefined}

PropertyNames == {"odometer", "isPluggedIn", "chargeState", "amperage", "vin"}

\* a PropertySpec: an optional set of supported makes, and an endpoint that
\* is a fixed identifier or, for a brand-specific property, a function of
\* the make; "" stands for a property without an endpoint
vehicleProperties(name) ==
    CASE name = "odometer" ->
            [restricted |-> FALSE, supportedMakes |-> {},
             endpoint |-> [m \in Makes |-> "/odometer"]]
      [] name = "isPluggedIn" ->
            [restricted |-> FALSE, supportedMakes |-> {},
             endpoint |-> [m \in Makes |-> "/charge"]]
      [] name = "chargeState" ->
            [restricted |-> FALSE, supportedMakes |-> {},
             endpoint |-> [m \in Makes |-> "/charge"]]
      [] name = "amperage" ->
            [restricted |-> TRUE, supportedMakes |-> {"TESLA"},
             endpoint |-> [m \in Makes |-> IF m = "TESLA" THEN "/tesla/charge/ammeter"
                                           ELSE "/other/charge/ammeter"]]
      [] name = "vin" ->
            [restricted |-> FALSE, supportedMakes |-> {},
             endpoint |-> [m \in Makes |-> ""]]

\* what process(batchResponse, make) can yield for a property: a plain
\* value, an error object of type PERMISSION or of another type, or undefined
PlainValue == [kind |-> "value", type |-> ""]
PermissionError == [kind |-> "error", type |-> "PERMISSION"]
RateLimitError == [kind |-> "error", type |-> "RATE_LIMIT"]
UndefinedValue == [kind |-> "undefined", type |-> ""]
ProcessResults == {PlainValue, PermissionError, RateLimitError, UndefinedValue}

\* the vehicleInfo object: id, make and one key per property kept
NoVehicleInfo == [id |-> 0, make |-> Undefined, props |-> <<>>]

ErrBatch == "vehicle.batch rejected"
ErrTypeError == "TypeError: Cannot read properties of undefined (reading 'error')"

\* if (supportedMakes && !supportedMakes.includes(make)) return;
droppedNever(name, make) == FALSE
dropped(name, make) ==
    /\ vehicleProperties(name).restricted
    /\ make \notin vehicleProperties(name).supportedMakes

\* newEndpoint: endpoint(make) for a property with supportedMakes, else the
\* fixed endpoint
newEndpoint(name, make) == vehicleProperties(name).endpoint[make]

\* endpoints.includes(newEndpoint)
includes(list, x) == \E i \in DOMAIN list : list[i] = x

\* one turn of requestedProperties.forEach (lines 211-224)
planPropertyNoDedupe(acc, name, make) ==
    IF dropped(name, make) THEN acc
    ELSE [supportedProperties |-> Append(acc.supportedProperties, name),
          endpoints |-> IF newEndpoint(name, make) # ""
                        THEN Append(acc.endpoints, newEndpoint(name, make))
                        ELSE acc.endpoints]
planProperty(acc, name, make) ==
    IF dropped(name, make) THEN acc
    ELSE [supportedProperties |-> Append(acc.supportedProperties, name),
          endpoints |-> IF /\ newEndpoint(name, make) # ""
                           /\ ~includes(acc.endpoints, newEndpoint(name, make))
                        THEN Append(acc.endpoints, newEndpoint(name, make))
                        ELSE acc.endpoints]

RECURSIVE planProperties(_, _, _)
planProperties(requestedProperties, make, acc) ==
    IF requestedProperties = <<>> THEN acc
    ELSE planProperties(Tail(requestedProperties), make,
                        planProperty(acc, Head(requestedProperties), make))

\* value.error && value.error.type === 'PERMISSION'
isPermissionError(value) == value.kind = "error" /\ value.type = "PERMISSION"

\* one turn of supportedProperties.forEach (lines 230-237): reading
\* value.error of undefined throws, a PERMISSION error is left out, anything
\* else is stored under the property's name
mapProperty(acc, name, batchResponse) ==
    IF acc.threw THEN acc
    ELSE IF batchResponse[name].kind = "undefined" THEN [acc EXCEPT !.threw = TRUE]
    ELSE IF isPermissionError(batchResponse[name]) THEN acc
    ELSE [acc EXCEPT !.props = [k \in DOMAIN acc.props \cup {name} |->
                                   IF k = name THEN batchResponse[name]
                                   ELSE acc.props[k]]]

RECURSIVE mapProperties(_, _, _)
mapProperties(supportedProperties, batchResponse, acc) ==
    IF supportedProperties = <<>> THEN acc
    ELSE mapProperties(Tail(supportedProperties), batchResponse,
                       mapProperty(acc, Head(supportedProperties), batchResponse))

---------------------------------------------------------------------------
(* State *)

\* no getVehiclesWithAttributes call is running
IdleFan == [pc |-> "idle", vehicleIds |-> <<>>, settlements |-> <<>>,
            result |-> <<>>]

\* no getVehicleInfo call is running
IdleInfo ==
    [pc |-> "idle", vehicleId |-> 0, make |-> Undefined,
     requestedProperties |-> <<>>, supportedProperties |-> <<>>,
     endpoints |-> <<>>, batchCalls |-> 0, batch |-> "none",
     batchResponse |-> <<>>, status |-> "none", message |-> "",
     vehicleInfo |-> NoVehicleInfo]

IdleProc ==
    [pc |-> "idle", kind |-> "none", vid |-> 0, cookie |-> NoCookie,
     gaNow |-> Absent, listed |-> <<>>, listedAt |-> Absent, tokens |-> NoRecord, callNow |-> Absent,
     submitted |-> Absent, newAccess |-> NoRecord, gav |-> NoOutcome, ga |-> NoOutcome,
     http |-> NoResponse,
     lists |-> 0, reads |-> 0, writes |-> 0, exchanges |-> 0, gaCalls |-> 0,
     writesAtStart |-> 0, wroteAt |-> 0, calls |-> 0]

Init ==
    /\ store \in [VehicleIds -> UNION {InitialRecords(v) : v \in VehicleIds}
                                  \cup {NoRecord}]
    /\ \A v \in VehicleIds : store[v] \in InitialRecords(v) \cup {NoRecord}
    /\ now = 0
    /\ authClient = NULL
    /\ procs = [p \in Procs |-> IdleProc]
    /\ issued = 0
    /\ nwrites = 0
    /\ exchanged = {}
    /\ fan = IdleFan
    /\ info = IdleInfo

---------------------------------------------------------------------------
(* Operations *)

\* a request or a direct call begins: fresh locals, the counters of the call
\* at zero
NewCall(pr, kind) ==
    [IdleProc EXCEPT !.kind = kind, !.calls = pr.calls + 1,
                     !.writesAtStart = nwrites]

CanCall(p) ==
    /\ procs[p].pc \in {"idle", "done"}
    /\ procs[p].calls < MaxCalls
    /\ \A q \in Procs : q < p => procs[q].calls > 0

\* authenticate(req, res, next) calls getAccess(req), which runs up to its
\* first await: a valid session cookie is returned at once, anything else
\* falls through to getAllStoredVehicles()
authenticate(p) ==
    /\ CanCall(p)
    /\ \E cookie \in Cookies :
        LET pr == [NewCall(procs[p], "auth") EXCEPT !.cookie = cookie, !.gaCalls = 1,
                                                    !.gaNow = now]
            fromCookie == getAccessFromCookie(cookie, now)
        IN  procs' = [procs EXCEPT ![p] =
                IF fromCookie # NoOutcome
                THEN getAccessSettle(pr, fromCookie)
                ELSE [pr EXCEPT !.pc = "ga_list", !.lists = @ + 1]]
    /\ UNCHANGED <<store, now, authClient, issued, nwrites, exchanged, fan, info>>

\* the store answers getAllStoredVehicles(); getAccess takes the first id
\* and calls getAccessForVehicle, or throws when there is none
getAccessListed(p) ==
    /\ procs[p].pc = "ga_list"
    /\ \E ids \in RowOrders(getAllStoredVehicles(store, now)) :
        LET pr == [procs[p] EXCEPT !.listed = ids, !.listedAt = now]
        IN  procs' = [procs EXCEPT ![p] =
                IF Len(ids) > 0
                THEN [pr EXCEPT !.vid = firstVehicle(ids), !.pc = "gav_read",
                                !.reads = @ + 1]
                ELSE getAccessSettle(pr, Rejected(ErrNoAccess))]
    /\ UNCHANGED <<store, now, authClient, issued, nwrites, exchanged, fan, info>>

\* a route calls getAccessForVehicle(vehicleId) itself
getAccessForVehicle(p) ==
    /\ CanCall(p)
    /\ \E vehicleId \in VehicleIds :
        procs' = [procs EXCEPT ![p] =
            [NewCall(procs[p], "direct") EXCEPT !.vid = vehicleId,
                                               !.pc = "gav_read", !.reads = 1]]
    /\ UNCHANGED <<store, now, authClient, issued, nwrites, exchanged, fan, info>>

\* the store answers getVehicleTokens(vehicleId)
getAccessForVehicleRead(p) ==
    /\ procs[p].pc = "gav_read"
    /\ procs' = [procs EXCEPT ![p] =
            [@ EXCEPT !.tokens = getVehicleTokens(store, procs[p].vid),
                      !.pc = "gav_check"]]
    /\ UNCHANGED <<store, now, authClient, issued, nwrites, exchanged, fan, info>>

\* lines 68-84 and 97: no row, a fresh access token, an expired refresh
\* token, or refreshTokens(tokens.refreshToken), which throws without an
\* auth client and else calls authClient.exchangeRefreshToken
getAccessForVehicleCheck(p) ==
    /\ procs[p].pc = "gav_check"
    /\ LET pr == procs[p]
           prNow == [pr EXCEPT !.callNow = now]
       IN  procs' = [procs EXCEPT ![p] =
             IF noTokens(pr.tokens)
             THEN getAccessForVehicleSettle(pr, Rejected(ErrNotFound))
             ELSE IF ~isExpired(pr.tokens, now)
             THEN getAccessForVehicleSettle(prNow,
                      Fulfilled(pr.tokens.accessToken, Absent))
             ELSE IF refreshExpired(pr.tokens, now)
             THEN getAccessForVehicleSettle(prNow, Rejected(ErrRefreshExpired))
             ELSE IF clientMissing(authClient)
             THEN getAccessForVehicleSettle(prNow, Rejected(ErrNotInitialized))
             ELSE [prNow EXCEPT !.pc = "exchange", !.exchanges = @ + 1,
                                !.submitted = pr.tokens.refreshToken]]
    /\ UNCHANGED <<store, now, authClient, issued, nwrites, exchanged, fan, info>>

\* authClient.exchangeRefreshToken answers with a new access object, and
\* getAccessForVehicle calls saveVehicleTokens with its four fields
exchangeRefreshTokenOk(p) ==
    /\ procs[p].pc = "exchange"
    /\ \E life \in AccessLifetimes :
        procs' = [procs EXCEPT ![p] =
            [@ EXCEPT !.newAccess = NewAccess(issued + 1, now, life),
                      !.pc = "save", !.writes = @ + 1]]
    /\ issued' = issued + 1
    /\ exchanged' = exchanged \cup {procs[p].submitted}
    /\ UNCHANGED <<store, now, authClient, nwrites, fan, info>>

\* authClient.exchangeRefreshToken rejects: the error leaves refreshTokens
\* and getAccessForVehicle
exchangeRefreshTokenFailRetry(p) ==
    /\ procs[p].pc = "exchange"
    /\ procs' = [procs EXCEPT ![p] =
            IF @.exchanges < 2
            THEN [@ EXCEPT !.exchanges = @ + 1]
            ELSE getAccessForVehicleSettle(@, Rejected(ErrExchange))]
    /\ UNCHANGED <<store, now, authClient, issued, nwrites, exchanged, fan, info>>
exchangeRefreshTokenFail(p) ==
    /\ procs[p].pc = "exchange"
    /\ \E msg \in ExchangeErrors :
        procs' = [procs EXCEPT ![p] = getAccessForVehicleSettle(@, Rejected(msg))]
    /\ UNCHANGED <<store, now, authClient, issued, nwrites, exchanged, fan, info>>

\* the store executes the upsert; getAccessForVehicle returns the new
\* access token
saveVehicleTokensOk(p) ==
    /\ procs[p].pc = "save"
    /\ store' = saveVehicleTokens(store, procs[p].vid, procs[p].newAccess)
    /\ nwrites' = nwrites + 1
    /\ procs' = [procs EXCEPT ![p] =
            getAccessForVehicleSettle([@ EXCEPT !.wroteAt = nwrites + 1],
                Fulfilled(@.newAccess.accessToken, Absent))]
    /\ UNCHANGED <<now, authClient, issued, exchanged, fan, info>>

\* the upsert query rejects
saveVehicleTokensFailRetry(p) ==
    /\ procs[p].pc = "save"
    /\ procs' = [procs EXCEPT ![p] =
            IF @.writes < 2
            THEN [@ EXCEPT !.writes = @ + 1]
            ELSE getAccessForVehicleSettle(@, Rejected(ErrStore))]
    /\ UNCHANGED <<store, now, authClient, issued, nwrites, exchanged, fan, info>>
saveVehicleTokensFail(p) ==
    /\ procs[p].pc = "save"
    /\ procs' = [procs EXCEPT ![p] = getAccessForVehicleSettle(@, Rejected(ErrStore))]
    /\ UNCHANGED <<store, now, authClient, issued, nwrites, exchanged, fan, info>>

\* setAuthClient(client), called from index.js
setAuthClient ==
    /\ authClient = NULL
    /\ authClient' = Client
    /\ UNCHANGED <<store, now, procs, issued, nwrites, exchanged, fan, info>>

\* time passes
Tick ==
    /\ now < MaxNow * ClockStep
    /\ now' = now + ClockStep
    /\ UNCHANGED <<store, authClient, procs, issued, nwrites, exchanged, fan, info>>

Steps(PS) ==
    \/ setAuthClient
    \/ Tick
    \/ \E p \in PS : authenticate(p)
    \/ \E p \in PS : getAccessListed(p)
    \/ \E p \in PS : getAccessForVehicle(p)
    \/ \E p \in PS : getAccessForVehicleRead(p)
    \/ \E p \in PS : getAccessForVehicleCheck(p)
    \/ \E p \in PS : exchangeRefreshTokenOk(p)
    \/ \E p \in PS : exchangeRefreshTokenFail(p)
    \/ \E p \in PS : saveVehicleTokensOk(p)
    \/ \E p \in PS : saveVehicleTokensFail(p)

\* one request after the other
Next == Steps({1})

Spec == Init /\ [][Next]_vars

\* two requests that overlap, each making its last call, over a table that
\* holds at most the row of vehicle 1
InitConc ==
    /\ store \in [VehicleIds -> InitialRecords(1) \cup {NoRecord}]
    /\ \A v \in VehicleIds : v # 1 => store[v] = NoRecord
    /\ now = 0
    /\ authClient = NULL
    /\ procs = [p \in Procs |-> [IdleProc EXCEPT !.calls = MaxCalls - 1]]
    /\ issued = 0
    /\ nwrites = 0
    /\ exchanged = {}
    /\ fan = IdleFan
    /\ info = IdleInfo

NextConc == Steps(Procs)

SpecConc == InitConc /\ [][NextConc]_vars

---------------------------------------------------------------------------
(* getVehiclesWithAttributes *)

\* the token side at rest
TokenSideIdle ==
    /\ store = [v \in VehicleIds |-> NoRecord]
    /\ now = 0
    /\ authClient = NULL
    /\ procs = [p \in Procs |-> IdleProc]
    /\ issued = 0
    /\ nwrites = 0
    /\ exchanged = {}

VehicleIdLists == UNION {[1..n -> VehicleIds] : n \in 0..MaxFetches}

\* vehicleIds.map(...) builds a vehicle and calls attributes() for every id,
\* then Promise.allSettled is awaited
getVehiclesWithAttributes ==
    /\ fan.pc = "idle"
    /\ \E vehicleIds \in VehicleIdLists :
        fan' = [pc |-> "awaiting", vehicleIds |-> vehicleIds,
                settlements |-> [i \in DOMAIN vehicleIds |-> PendingFetch],
                result |-> <<>>]
    /\ UNCHANGED <<tokenVars, info>>

\* the attributes() call of the i-th vehicle resolves
attributesFulfilled(i) ==
    /\ fan.pc = "awaiting"
    /\ i \in DOMAIN fan.settlements
    /\ fan.settlements[i].status = "pending"
    /\ fan' = [fan EXCEPT !.settlements[i] =
                    FulfilledFetch(AttributesOf(fan.vehicleIds[i]))]
    /\ UNCHANGED <<tokenVars, info>>

\* the attributes() call of the i-th vehicle rejects
attributesRejected(i) ==
    /\ fan.pc = "awaiting"
    /\ i \in DOMAIN fan.settlements
    /\ fan.settlements[i].status = "pending"
    /\ fan' = [fan EXCEPT !.settlements[i] = RejectedFetch("vehicle unreachable")]
    /\ UNCHANGED <<tokenVars, info>>

\* Promise.allSettled resolves, and every settlement goes through
\* handleSettlement(settlement)
getVehiclesWithAttributesReturn ==
    /\ fan.pc = "awaiting"
    /\ allSettled(fan.settlements)
    /\ fan' = [fan EXCEPT !.pc = "done",
                          !.result = [i \in DOMAIN fan.settlements |->
                              handleSettlement(fan.settlements[i], Undefined,
                                               Undefined, Undefined)]]
    /\ UNCHANGED <<tokenVars, info>>

InitFan == TokenSideIdle /\ fan = IdleFan /\ info = IdleInfo

NextFan ==
    \/ getVehiclesWithAttributes
    \/ \E i \in 1..MaxFetches : attributesFulfilled(i)
    \/ \E i \in 1..MaxFetches : attributesRejected(i)
    \/ getVehiclesWithAttributesReturn

SpecFan == InitFan /\ [][NextFan]_vars

\* C11: all N attribute fetches are started and all are awaited until
\* settled; the result has N entries, entry i is that of vehicle i: a
\* rejected fetch gives {error: message}, a fulfilled fetch its own value
\* without meta, whichever fetches reject.
C11_FanOutIsolation ==
    /\ fan.pc # "idle" => Len(fan.settlements) = Len(fan.vehicleIds)
    /\ fan.pc = "done" =>
        /\ Len(fan.result) = Len(fan.vehicleIds)
        /\ \A i \in 1..Len(fan.vehicleIds) :
            /\ fan.settlements[i].status \in {"fulfilled", "rejected"}
            /\ fan.settlements[i].status = "rejected" =>
                fan.result[i] = [error |-> "Information unavailable"]
            /\ fan.settlements[i].status = "fulfilled" =>
                /\ DOMAIN fan.result[i] = {"id", "make", "model", "year"}
                /\ fan.result[i].id = fan.vehicleIds[i]
                /\ \A f \in {"id", "make", "model", "year"} :
                    fan.result[i][f] = AttributesOf(fan.vehicleIds[i])[f]

\* three fetches of which exactly one rejected
C11_Witness ==
    /\ fan.pc = "done"
    /\ Len(fan.vehicleIds) = 3
    /\ Cardinality({i \in 1..3 : fan.settlements[i].status = "rejected"}) = 1
    /\ fan.settlements[2].status = "rejected"
    /\ fan.result[2] = [error |-> "Information unavailable"]
    /\ fan.result[1].id = fan.vehicleIds[1]
    /\ fan.result[3].id = fan.vehicleIds[3]

---------------------------------------------------------------------------
(* getVehicleInfo *)

PropertyLists == UNION {[1..n -> PropertyNames] : n \in 0..MaxProps}

\* lines 201-227: the vehicleInfo with id and make, the planning loop, and
\* the one call of vehicle.batch(endpoints)
getVehicleInfo ==
    /\ info.pc = "idle"
    /\ \E vehicleId \in VehicleIds, make \in Makes, requestedProperties \in PropertyLists :
        LET plan == planProperties(requestedProperties, make,
                        [supportedProperties |-> <<>>, endpoints |-> <<>>])
        IN  info' = [IdleInfo EXCEPT !.pc = "batch", !.vehicleId = vehicleId,
                         !.make = make,
                         !.requestedProperties = requestedProperties,
                         !.supportedProperties = plan.supportedProperties,
                         !.endpoints = plan.endpoints,
                         !.batchCalls = 1, !.batch = "pending"]
    /\ UNCHANGED <<tokenVars, fan>>

\* vehicle.batch rejects: the error leaves getVehicleInfo
batchRejectedRetry ==
    /\ info.pc = "batch"
    /\ info' = IF info.batchCalls < 2
               THEN [info EXCEPT !.batchCalls = @ + 1]
               ELSE [info EXCEPT !.pc = "done", !.batch = "rejected",
                                 !.status = "error", !.message = ErrBatch]
    /\ UNCHANGED <<tokenVars, fan>>
batchRejected ==
    /\ info.pc = "batch"
    /\ info' = [info EXCEPT !.pc = "done", !.batch = "rejected",
                            !.status = "error", !.message = ErrBatch]
    /\ UNCHANGED <<tokenVars, fan>>

\* vehicle.batch resolves; lines 230-238 map the response onto the supported
\* properties and return vehicleInfo
batchResolved ==
    /\ info.pc = "batch"
    /\ \E batchResponse \in
            [{info.supportedProperties[i] : i \in DOMAIN info.supportedProperties}
                -> ProcessResults] :
        LET mapped == mapProperties(info.supportedProperties, batchResponse,
                          [threw |-> FALSE, props |-> <<>>])
        IN  info' = IF mapped.threw
                    THEN [info EXCEPT !.pc = "done", !.batch = "resolved",
                                      !.batchResponse = batchResponse,
                                      !.status = "error", !.message = ErrTypeError]
                    ELSE [info EXCEPT !.pc = "done", !.batch = "resolved",
                                      !.batchResponse = batchResponse,
                                      !.status = "ok",
                                      !.vehicleInfo = [id |-> info.vehicleId,
                                                       make |-> info.make,
                                                       props |-> mapped.props]]
    /\ UNCHANGED <<tokenVars, fan>>

InitInfo == TokenSideIdle /\ fan = IdleFan /\ info = IdleInfo

NextInfo ==
    \/ getVehicleInfo
    \/ batchRejected
    \/ batchResolved

SpecInfo == InitInfo /\ [][NextInfo]_vars

\* the table's answer for a requested property and the make of the call
MakeExcluded(name) ==
    /\ vehicleProperties(name).restricted
    /\ info.make \notin vehicleProperties(name).supportedMakes

ResolvedEndpoint(name) == vehicleProperties(name).endpoint[info.make]

\* the positions of the requested properties that bring an endpoint
Contributing ==
    {k \in DOMAIN info.requestedProperties :
        /\ ~MakeExcluded(info.requestedProperties[k])
        /\ ResolvedEndpoint(info.requestedProperties[k]) # ""}

\* where an endpoint identifier is seen first in requestedProperties
FirstSeen(e) ==
    CHOOSE k \in Contributing :
        /\ ResolvedEndpoint(info.requestedProperties[k]) = e
        /\ \A j \in Contributing :
            ResolvedEndpoint(info.requestedProperties[j]) = e => k <= j

SupportedNames ==
    {info.supportedProperties[i] : i \in DOMAIN info.supportedProperties}

Mapped == info.pc = "done" /\ info.batch = "resolved"

\* C12: getVehicleInfo makes exactly one batched call, whatever the list of
\* requested properties (empty, or all dropped); when the call fails the
\* failure reaches the caller, no vehicleInfo is returned and there is no
\* second call.
C12_OneBatchCall ==
    /\ info.pc # "idle" => info.batchCalls = 1
    /\ (info.pc = "done" /\ info.batch = "rejected") =>
        /\ info.status = "error"
        /\ info.message = ErrBatch
        /\ info.vehicleInfo = NoVehicleInfo
    /\ info.pc = "done" => info.batch \in {"rejected", "resolved"}

\* the call failed for a list of which every property was dropped
C12_Witness ==
    /\ info.pc = "done" /\ info.batch = "rejected"
    /\ info.batchCalls = 1
    /\ Len(info.requestedProperties) > 0
    /\ info.supportedProperties = <<>>
    /\ info.endpoints = <<>>
    /\ info.status = "error"

\* C13: the endpoint list of the batched call holds every resolved non-empty
\* endpoint identifier exactly once, in the order in which the identifiers
\* are first seen in requestedProperties.
C13_EndpointsDeduped ==
    info.pc # "idle" =>
        /\ \A i, j \in DOMAIN info.endpoints :
            i # j => info.endpoints[i] # info.endpoints[j]
        /\ {info.endpoints[i] : i \in DOMAIN info.endpoints}
            = {ResolvedEndpoint(info.requestedProperties[k]) : k \in Contributing}
        /\ \A i, j \in DOMAIN info.endpoints :
            i < j => FirstSeen(info.endpoints[i]) < FirstSeen(info.endpoints[j])

\* two properties of one endpoint, with another one between them
C13_Witness ==
    /\ info.pc # "idle"
    /\ info.requestedProperties = <<"isPluggedIn", "odometer", "chargeState">>
    /\ info.endpoints = <<"/charge", "/odometer">>

\* C14: a requested property whose supportedMakes leave out the make of the
\* vehicle brings no endpoint to the batched call and is no key of the
\* output, whatever is requested with it.
C14_MakeRestriction ==
    info.pc # "idle" =>
        \A k \in DOMAIN info.requestedProperties :
            MakeExcluded(info.requestedProperties[k]) =>
                /\ info.requestedProperties[k] \notin SupportedNames
                /\ \A i \in DOMAIN info.endpoints :
                    \E j \in Contributing :
                        ResolvedEndpoint(info.requestedProperties[j]) = info.endpoints[i]
                /\ info.status = "ok" =>
                    info.requestedProperties[k] \notin DOMAIN info.vehicleInfo.props

C14_Witness ==
    /\ info.pc = "done" /\ info.status = "ok"
    /\ info.make = "FORD"
    /\ info.requestedProperties = <<"odometer", "amperage", "isPluggedIn">>
    /\ info.endpoints = <<"/odometer", "/charge">>
    /\ DOMAIN info.vehicleInfo.props = {"odometer", "isPluggedIn"}

\* C15: when process yields a PERMISSION error for a supported property,
\* its key is missing from the output, getVehicleInfo returns normally with
\* id and make, and every sibling is processed and present.
C15_PermissionOmitted ==
    Mapped =>
        \A name \in SupportedNames :
            info.batchResponse[name] = PermissionError =>
                /\ info.status = "ok"
                /\ info.vehicleInfo.id = info.vehicleId
                /\ info.vehicleInfo.make = info.make
                /\ name \notin DOMAIN info.vehicleInfo.props
                /\ \A sibling \in SupportedNames :
                    info.batchResponse[sibling] # PermissionError =>
                        /\ sibling \in DOMAIN info.vehicleInfo.props
                        /\ info.vehicleInfo.props[sibling] = info.batchResponse[sibling]

\* C16: a supported property whose process result is not a PERMISSION error
\* (a plain value, another error, undefined) is a key of the output, mapped
\* to exactly that result, and getVehicleInfo completes.
C16_OtherValuesKept ==
    Mapped =>
        \A name \in SupportedNames :
            info.batchResponse[name] # PermissionError =>
                /\ info.status = "ok"
                /\ name \in DOMAIN info.vehicleInfo.props
                /\ info.vehicleInfo.props[name] = info.batchResponse[name]

---------------------------------------------------------------------------
(* Properties of getAccessForVehicle *)

\* the call of p has run lines 73-75 over a row it read
Checked(p) == procs[p].pc # "idle" /\ procs[p].callNow # Absent

Settled(p) == procs[p].pc = "done" /\ procs[p].gav.status # "none"

\* nothing has been written to the store since the call of p began
NoWriteSince(p) == nwrites = procs[p].writesAtStart

\* the errors of the collaborators on the refresh path
RefreshFailures == ExchangeErrors \cup {ErrStore, ErrNotInitialized}

\* C1: a row whose accessExpiry is more than 5 minutes after now makes
\* getAccessForVehicle return exactly the stored access token, with no
\* exchange and no store write, and the row stays as it was.
C1_FreshTokenReturned ==
    \A p \in Procs :
        (/\ Checked(p)
         /\ procs[p].tokens.expiration > procs[p].callNow + 5 * 60 * 1000)
        => /\ procs[p].pc = "done"
           /\ procs[p].gav = Fulfilled(procs[p].tokens.accessToken, Absent)
           /\ procs[p].exchanges = 0
           /\ procs[p].writes = 0
           /\ procs[p].wroteAt = 0
           /\ NoWriteSince(p) => store[procs[p].vid] = procs[p].tokens

C1_Witness ==
    \E p \in Procs :
        /\ Settled(p) /\ Checked(p)
        /\ procs[p].tokens.expiration > procs[p].callNow + 5 * 60 * 1000
        /\ procs[p].gav.status = "ok"
        /\ store[procs[p].vid] = procs[p].tokens

\* the refresh path was taken to its end: one exchange with the stored
\* refresh token, one upsert, the new access token returned, and the row
\* holds the four fields of the exchange until somebody writes again
Refreshed(p) ==
    /\ procs[p].exchanges = 1
    /\ procs[p].submitted = procs[p].tokens.refreshToken
    /\ procs[p].writes = 1
    /\ procs[p].wroteAt > 0
    /\ procs[p].gav = Fulfilled(procs[p].newAccess.accessToken, Absent)
    /\ procs[p].newAccess # NoRecord
    /\ nwrites = procs[p].wroteAt => store[procs[p].vid] = procs[p].newAccess

\* C2 as stated: accessExpiry at most 5 minutes after now (or past) and
\* refreshExpiry in the future: unless the exchange or the upsert fails, the
\* call refreshes.
C2_AsStated ==
    \A p \in Procs :
        (/\ Settled(p) /\ Checked(p)
         /\ procs[p].tokens.expiration <= procs[p].callNow + 5 * 60 * 1000
         /\ procs[p].tokens.refreshExpiration > procs[p].callNow
         /\ ~(procs[p].gav.status = "error" /\ procs[p].gav.message \in RefreshFailures))
        => Refreshed(p)

\* C2: accessExpiry less than 5 minutes after now (or past) and refreshExpiry
\* in the future: a call whose exchange and upsert succeed makes one
\* exchange with the stored refresh token and one upsert, the row afterwards
\* holds the four fields of the exchange, and the new access token is
\* returned.
C2_RefreshWithinBuffer ==
    \A p \in Procs :
        (/\ Settled(p) /\ Checked(p)
         /\ procs[p].tokens.expiration < procs[p].callNow + 5 * 60 * 1000
         /\ procs[p].tokens.refreshExpiration > procs[p].callNow
         /\ ~(procs[p].gav.status = "error" /\ procs[p].gav.message \in RefreshFailures))
        => Refreshed(p)

C2_Witness ==
    \E p \in Procs :
        /\ Settled(p) /\ Checked(p)
        /\ procs[p].tokens.expiration < procs[p].callNow + 5 * 60 * 1000
        /\ procs[p].tokens.refreshExpiration > procs[p].callNow
        /\ procs[p].gav.status = "ok"
        /\ store[procs[p].vid] = procs[p].newAccess
        /\ store[procs[p].vid] # procs[p].tokens

---------------------------------------------------------------------------
(* Properties of getAccess and authenticate *)

IsRequest(p) == procs[p].pc # "idle" /\ procs[p].kind = "auth"

\* C4 as stated: one getAccess invocation reads the store at most once and
\* writes it at most once, on every path.
C4_AsStated ==
    \A p \in Procs :
        IsRequest(p) =>
            /\ procs[p].lists + procs[p].reads <= 1
            /\ procs[p].writes <= 1

\* C4: one getAccess invocation reads the store at most twice (the listing
\* of the vehicles, then the row of the first one) and writes it at most
\* once, on every path; with a valid session it does neither.
C4_StoreAccesses ==
    \A p \in Procs :
        IsRequest(p) =>
            /\ procs[p].lists <= 1
            /\ procs[p].reads <= 1
            /\ procs[p].reads = 1 => procs[p].lists = 1
            /\ procs[p].writes <= 1
            /\ procs[p].writes = 1 => procs[p].exchanges = 1
            /\ procs[p].wroteAt > 0 => procs[p].writes = 1

C4_Witness ==
    \E p \in Procs :
        /\ IsRequest(p) /\ procs[p].pc = "done"
        /\ procs[p].lists = 1 /\ procs[p].reads = 1
        /\ procs[p].writes = 1 /\ procs[p].wroteAt > 0

\* C5: a session credential that verifies, has an expiration and whose
\* expiry minus 5 minutes is after now is returned at once: no listing, no
\* row read, no write, no exchange, whatever the store holds.
C5_ValidSession ==
    \A p \in Procs :
        (/\ IsRequest(p)
         /\ procs[p].cookie.kind = "ok"
         /\ procs[p].cookie.expiration - 5 * 60 * 1000 > procs[p].gaNow)
        => /\ procs[p].pc = "done"
           /\ procs[p].ga = Fulfilled(procs[p].cookie.accessToken,
                                      procs[p].cookie.expiration)
           /\ procs[p].gav.status = "none"
           /\ procs[p].lists = 0 /\ procs[p].reads = 0
           /\ procs[p].writes = 0 /\ procs[p].exchanges = 0
           /\ procs[p].wroteAt = 0

C5_Witness ==
    \E p \in Procs :
        /\ IsRequest(p) /\ procs[p].pc = "done"
        /\ procs[p].cookie.kind = "ok"
        /\ procs[p].cookie.expiration - 5 * 60 * 1000 > procs[p].gaNow
        /\ procs[p].ga.status = "ok"
        /\ \A v \in VehicleIds : store[v] = NoRecord

\* the vehicles whose row has a refresh token that has not expired
UsableVehicles ==
    {v \in VehicleIds : store[v] # NoRecord /\ store[v].refreshExpiration > now}

\* the step in which the store answers the listing of request p
C6_ListStep(p) ==
    (procs[p].pc = "ga_list" /\ procs'[p].pc # "ga_list") =>
        /\ (UsableVehicles = {}) <=> (procs'[p].ga = Rejected(ErrNoAccess))
        /\ UsableVehicles = {} =>
            /\ procs'[p].pc = "done"
            /\ procs'[p].reads = 0 /\ procs'[p].exchanges = 0
            /\ procs'[p].writes = 0
            /\ store' = store
        /\ UsableVehicles # {} =>
            /\ procs'[p].pc = "gav_read"
            /\ {procs'[p].listed[i] : i \in 1..Len(procs'[p].listed)} = UsableVehicles
            /\ procs'[p].vid = procs'[p].listed[1]
            /\ procs'[p].reads = 1

\* what a request that went to the store ends with
C6_Outcome ==
    \A p \in Procs :
        (IsRequest(p) /\ procs[p].pc = "done" /\ procs[p].lists = 1) =>
            IF Len(procs[p].listed) = 0
            THEN /\ procs[p].ga = Rejected(ErrNoAccess)
                 /\ procs[p].gav.status = "none"
                 /\ procs[p].exchanges = 0 /\ procs[p].writes = 0
            ELSE /\ procs[p].gav.status # "none"
                 /\ procs[p].ga = procs[p].gav
                 /\ procs[p].ga # Rejected(ErrNoAccess)
                 /\ procs[p].vid = procs[p].listed[1]
                 /\ procs[p].reads = 1

\* C6: without a usable session, getAccess fails with NoAccess exactly when
\* the store lists no vehicle with a non-expired refresh token, and then
\* makes no exchange and no write; otherwise it calls getAccessForVehicle
\* for the first listed vehicle only and ends with exactly that call's
\* outcome.
C6_NoAccessOrDelegate ==
    /\ []C6_Outcome
    /\ [][\A p \in Procs : C6_ListStep(p)]_vars

C6_Witness ==
    \E p \in Procs :
        /\ IsRequest(p) /\ procs[p].pc = "done"
        /\ Len(procs[p].listed) = 2
        /\ procs[p].ga = procs[p].gav
        /\ procs[p].ga.status = "ok"

\* C7: authenticate calls getAccess once, and then either attaches the
\* credential and calls next, or answers 401 with {error: message} and does
\* not call next; never both, never neither.
C7_NextOr401 ==
    \A p \in Procs :
        IsRequest(p) =>
            /\ procs[p].gaCalls = 1
            /\ IF procs[p].pc = "done"
               THEN \/ /\ procs[p].ga.status = "ok"
                       /\ procs[p].http.next
                       /\ procs[p].http.status = 0
                       /\ procs[p].http.tokens = procs[p].ga
                    \/ /\ procs[p].ga.status = "error"
                       /\ ~procs[p].http.next
                       /\ procs[p].http.status = 401
                       /\ procs[p].http.body =
                            (IF procs[p].ga.message = "" THEN "Authentication failed"
                             ELSE procs[p].ga.message)
                       /\ procs[p].http.tokens = NoOutcome
               ELSE /\ procs[p].ga.status = "none"
                    /\ procs[p].http = NoResponse

C7_Witness ==
    \E p \in Procs :
        /\ IsRequest(p) /\ procs[p].pc = "done"
        /\ procs[p].ga.status = "error"
        /\ procs[p].http.status = 401
        /\ ~procs[p].http.next

---------------------------------------------------------------------------
(* Overlapping calls, missing rows, failing exchanges *)

\* C8: calls for one vehicle are not excluded from each other; once the
\* upserts are done the row is the one written by the upsert that completed
\* last.
C8_LastWriterWins ==
    \A p \in Procs :
        (procs[p].wroteAt > 0 /\ procs[p].wroteAt = nwrites)
        => /\ store[procs[p].vid] = procs[p].newAccess
           /\ \A q \in Procs \ {p} : procs[q].wroteAt < procs[p].wroteAt

\* two overlapping calls read the same old row of one vehicle, both
\* exchanged its refresh token and both wrote
C8_Witness ==
    \E p, q \in Procs :
        /\ p # q
        /\ Settled(p) /\ Settled(q)
        /\ procs[p].vid = procs[q].vid
        /\ procs[p].tokens = procs[q].tokens /\ procs[p].tokens # NoRecord
        /\ procs[p].exchanges = 1 /\ procs[q].exchanges = 1
        /\ procs[p].submitted = procs[q].submitted
        /\ 0 < procs[p].wroteAt /\ procs[p].wroteAt < procs[q].wroteAt
        /\ store[procs[q].vid] = procs[q].newAccess
        /\ store[procs[q].vid] # procs[p].newAccess

\* C9: getAccessForVehicle on a vehicle without a row fails with NotFound
\* after a single read, with no exchange and no write: no row is created.
C9_NotFound ==
    \A p \in Procs :
        (Settled(p) /\ procs[p].tokens = NoRecord)
        => /\ procs[p].gav = Rejected(ErrNotFound)
           /\ procs[p].reads = 1
           /\ procs[p].exchanges = 0
           /\ procs[p].writes = 0
           /\ procs[p].wroteAt = 0
           /\ NoWriteSince(p) => store[procs[p].vid] = NoRecord

C9_Witness ==
    \E p \in Procs :
        /\ Settled(p) /\ procs[p].tokens = NoRecord
        /\ procs[p].kind = "direct"
        /\ procs[p].gav = Rejected(ErrNotFound)
        /\ store[procs[p].vid] = NoRecord

\* C10: a failing exchange on the refresh path reaches the caller, after
\* exactly one attempt, with no store write, and the row stays as it was.
C10_ExchangeFailure ==
    \A p \in Procs :
        (/\ procs[p].pc = "done"
         /\ procs[p].exchanges > 0
         /\ procs[p].newAccess = NoRecord)
        => /\ procs[p].gav.status = "error"
           /\ procs[p].gav.message \in ExchangeErrors
           /\ procs[p].kind = "auth" => procs[p].ga = procs[p].gav
           /\ procs[p].exchanges = 1
           /\ procs[p].writes = 0
           /\ procs[p].wroteAt = 0
           /\ NoWriteSince(p) => store[procs[p].vid] = procs[p].tokens

C10_Witness ==
    \E p \in Procs :
        /\ procs[p].pc = "done"
        /\ procs[p].exchanges = 1
        /\ procs[p].newAccess = NoRecord
        /\ procs[p].gav = Rejected(ErrExchange)
        /\ store[procs[p].vid] = procs[p].tokens

---------------------------------------------------------------------------
(* C17 *)

\* the session cookie of the claim's three cases at time t: absent, rejected
\* by jwt.verify, or expired (the code's sense: not more than five minutes
\* before its expiration)
FallsThrough(cookie, t) ==
    \/ cookie.kind = "none"
    \/ cookie.kind = "invalid"
    \/ cookie.kind = "ok" /\ cookie.expiration - expirationBuffer <= t

\* what getAccess has done, by its first await, with a request without a cookie
NoCookieStart ==
    [IdleProc EXCEPT !.kind = "auth", !.gaCalls = 1, !.lists = 1, !.pc = "ga_list"]

\* C17: a request whose session cookie is absent, malformed or expired goes
\* to the store exactly as a request without a cookie does (one
\* getAllStoredVehicles call, no other state than the cookie-less request
\* has), and its outcome is the store fallback's: NoAccess with no read,
\* write or exchange when nothing is listed, else whatever
\* getAccessForVehicle(first listed id) settles with; neither the cookie's
\* token nor a verification error is ever the outcome.
C17_CookieFallThrough ==
    \A p \in Procs :
        LET pr == procs[p]
        IN  (IsRequest(p) /\ FallsThrough(pr.cookie, pr.gaNow)) =>
                /\ pr.lists = 1
                /\ pr.pc = "ga_list" =>
                        [pr EXCEPT !.cookie = NoCookie, !.gaNow = Absent,
                                   !.calls = 0, !.writesAtStart = 0]
                            = NoCookieStart
                /\ pr.pc = "done" =>
                        /\ pr.ga.status # "none"
                        /\ pr.ga.message # ErrJwt
                        /\ pr.ga.status = "ok" =>
                                pr.ga.accessToken # pr.cookie.accessToken
                        /\ \/ /\ pr.listed = <<>>
                              /\ pr.ga = Rejected(ErrNoAccess)
                              /\ pr.reads = 0 /\ pr.writes = 0 /\ pr.exchanges = 0
                           \/ /\ pr.listed # <<>>
                              /\ pr.vid = firstVehicle(pr.listed)
                              /\ pr.reads = 1
                              /\ pr.ga = pr.gav

\* a request with a cookie that jwt.verify rejects was served from the store
\* after a refresh
C17_Witness ==
    \E p \in Procs :
        /\ IsRequest(p) /\ procs[p].pc = "done"
        /\ procs[p].cookie.kind = "invalid"
        /\ procs[p].ga.status = "ok"
        /\ procs[p].exchanges = 1 /\ procs[p].wroteAt > 0

---------------------------------------------------------------------------
(* C18 *)

\* the read row sends the call to refreshTokens at time t: the access token
\* is within five minutes of its expiry and the refresh token has not expired
RefreshPath(tokens, t) ==
    /\ ~noTokens(tokens)
    /\ tokens.expiration - expirationBuffer < t
    /\ ~(tokens.refreshExpiration < t)

\* while setAuthClient has not been called, nothing was exchanged or written,
\* and every finished call did what its row required without a client
C18_BeforeSetAuthClient ==
    authClient = NULL =>
        /\ issued = 0 /\ nwrites = 0 /\ exchanged = {}
        /\ \A p \in Procs :
            LET pr == procs[p]
            IN  /\ pr.pc \notin {"exchange", "save"}
                /\ pr.exchanges = 0 /\ pr.writes = 0
                /\ (Checked(p) /\ pr.pc = "done") =>
                    IF RefreshPath(pr.tokens, pr.callNow)
                    THEN pr.gav = Rejected(ErrNotInitialized)
                    ELSE pr.gav # Rejected(ErrNotInitialized)
                /\ (Checked(p) /\ pr.pc = "done"
                        /\ pr.tokens.expiration - expirationBuffer >= pr.callNow) =>
                    pr.gav = Fulfilled(pr.tokens.accessToken, Absent)

\* the step of call p that decides on the row it read
C18_CheckStep(p) ==
    (procs[p].pc = "gav_check" /\ procs'[p].pc # "gav_check"
        /\ RefreshPath(procs[p].tokens, now)) =>
        IF authClient = NULL
        THEN /\ procs'[p].pc = "done"
             /\ procs'[p].gav = Rejected(ErrNotInitialized)
             /\ procs'[p].exchanges = 0 /\ procs'[p].writes = 0
             /\ store' = store /\ issued' = issued
        ELSE /\ procs'[p].pc = "exchange"
             /\ procs'[p].exchanges = 1
             /\ procs'[p].submitted = procs[p].tokens.refreshToken
             /\ procs'[p].gav # Rejected(ErrNotInitialized)

\* C18: as long as setAuthClient has not been called, a getAccessForVehicle
\* call that reaches the refresh path fails with 'Auth client not
\* initialized' before any exchange and without a store write, and a call
\* whose access token is fresh still returns it; once setAuthClient has
\* set a client, a call on the refresh path submits the stored refresh
\* token to that client's exchange.
C18_AuthClientGate ==
    /\ []C18_BeforeSetAuthClient
    /\ [][\A p \in Procs : C18_CheckStep(p)]_vars

\* a call on the refresh path has failed for want of a client, which is
\* still unset
C18_Witness ==
    \E p \in Procs :
        /\ authClient = NULL
        /\ procs[p].pc = "done" /\ Checked(p)
        /\ RefreshPath(procs[p].tokens, procs[p].callNow)
        /\ procs[p].gav = Rejected(ErrNotInitialized)

---------------------------------------------------------------------------
(* C19 *)

\* C19 as stated: over getAccessForVehicle calls made one after the other, a
\* refresh token that the auth exchange has accepted is not the stored
\* refresh token once the call that submitted it is past its upsert, and no
\* call submits it to the exchange again.
C19_AsStated ==
    /\ \A v \in VehicleIds :
        (store[v] # NoRecord /\ store[v].refreshToken \in exchanged) =>
            \E p \in Procs :
                /\ procs[p].pc = "save" /\ procs[p].vid = v
                /\ procs[p].submitted = store[v].refreshToken
    /\ \A p \in Procs :
        procs[p].pc = "exchange" => procs[p].submitted \notin exchanged

---------------------------------------------------------------------------
(* C20 *)

\* request p went to the store and has ended
FellBack(p) == IsRequest(p) /\ procs[p].pc = "done" /\ procs[p].lists = 1

\* C20 as stated: with one clock and one request at a time, the call that
\* getAccess delegates to never fails with NotFound or RefreshExpired, and
\* the store fallback fails only with NoAccess or a refresh failure.
C20_AsStated ==
    \A p \in Procs :
        FellBack(p) =>
            /\ procs[p].gav \notin {Rejected(ErrNotFound), Rejected(ErrRefreshExpired)}
            /\ procs[p].ga.status = "error" =>
                    procs[p].ga.message \in {ErrNoAccess} \cup RefreshFailures

\* C20, amended: the vehicle that getAccess picks has a row whose refresh
\* token had not expired when the store listed it, so the delegated call
\* never fails with NotFound; it fails with RefreshExpired only when the
\* refresh token expired between the listing and the call's own reading of
\* the clock; the store fallback fails only with NoAccess, that
\* RefreshExpired, or a refresh failure.
C20_FallbackFailures ==
    \A p \in Procs :
        LET pr == procs[p]
        IN  /\ (IsRequest(p) /\ pr.lists = 1 /\ pr.pc \notin {"ga_list", "gav_read"}
                    /\ pr.listed # <<>>) =>
                    /\ ~noTokens(pr.tokens)
                    /\ pr.tokens.refreshExpiration > pr.listedAt
            /\ FellBack(p) =>
                    /\ pr.gav # Rejected(ErrNotFound)
                    /\ pr.gav = Rejected(ErrRefreshExpired) =>
                            /\ pr.listedAt < pr.tokens.refreshExpiration
                            /\ pr.tokens.refreshExpiration < pr.callNow
                    /\ pr.ga.status = "error" =>
                            pr.ga.message \in {ErrNoAccess, ErrRefreshExpired}
                                                \cup RefreshFailures

\* a listed vehicle's refresh token expired before the delegated call
\* looked at the clock
C20_Witness ==
    \E p \in Procs :
        /\ FellBack(p)
        /\ procs[p].ga = Rejected(ErrRefreshExpired)
        /\ procs[p].listedAt < procs[p].callNow

====
